---- MODULE Spec2Model ----
(***************************************************************************)
(* A model of qrate-gui: the ControlTower application state with its       *)
(* message handler (src/src/control_tower.rs) and the LoadFile dispatcher  *)
(* (src/src/load_file.rs).                                                 *)
(*                                                                         *)
(* Strings that the code only stores and compares (menu keys, page keys,   *)
(* locale tags) are TLA+ strings.  Paths are sequences of characters,      *)
(* because the dispatcher takes them apart (file name, extension,          *)
(* substring search).                                                      *)
(***************************************************************************)
EXTENDS Naturals, Sequences, FiniteSets, TLC

VARIABLES
    ct,            \* the ControlTower struct
    i18n_locale,   \* the process-wide locale of rust_i18n
    picks,         \* number of file-pick tasks spawned and not yet completed
    lastMsg,       \* history: the message update() handled last
    pre,           \* history: the ControlTower before that message
    lastTask,      \* history: the Task that update() returned for it
    tick,          \* history: flips every time update() runs
    fromPick,      \* history: that message was the outcome of a file-pick task
    lf             \* the last call of LoadFile::load_qbank_from_path

vars == <<ct, i18n_locale, picks, lastMsg, pre, lastTask, tick, fromPick, lf>>

guiVars == <<ct, i18n_locale, picks, lastMsg, pre, lastTask, tick, fromPick>>

-----------------------------------------------------------------------------
(* Bounds *)

\* at most this many file-pick tasks are in flight at once
MaxPending == 2

\* paths handed to the dispatcher are built from at most this many tokens
MaxTokens == 4

-----------------------------------------------------------------------------
(* Option<T> *)

None == [some |-> FALSE]

Some(x) == [some |-> TRUE, v |-> x]

unwrap_or(opt, default) == IF opt.some THEN opt.v ELSE default

-----------------------------------------------------------------------------
(* Characters and strings of the path functions *)

\* a byte that is not valid UTF-8
BAD == "\\xFF"

\* U+FFFD, what to_string_lossy puts in the place of an invalid byte
REPLACEMENT_CHARACTER == "U+FFFD"

\* PathBuf::new(), the default PathBuf
EmptyPath == << >>

STR_qbdb == <<"q", "b", "d", "b">>

STR_xlsx == <<"x", "l", "s", "x">>

STR_qb_xlsx == <<".", "q", "b", ".", "x", "l", "s", "x">>

\* str::contains: pat occurs in s as a contiguous substring
contains(s, pat) ==
    \E i \in 0..(Len(s) - Len(pat)) :
        \A j \in 1..Len(pat) : s[i + j] = pat[j]

\* OsStr::to_str: the string if it is valid UTF-8
to_str(s) ==
    IF \E i \in 1..Len(s) : s[i] = BAD THEN None ELSE Some(s)

\* Path::to_string_lossy: invalid bytes become U+FFFD
to_string_lossy(s) ==
    [i \in 1..Len(s) |-> IF s[i] = BAD THEN REPLACEMENT_CHARACTER ELSE s[i]]

\* the index of the last c in s, 0 if there is none
LastIndexOf(s, c) ==
    IF \E i \in 1..Len(s) : s[i] = c
    THEN CHOOSE i \in 1..Len(s) : s[i] = c /\ \A j \in (i + 1)..Len(s) : s[j] # c
    ELSE 0

\* s split at every "/" (the pieces may be empty)
RECURSIVE SplitSlash(_)
SplitSlash(s) ==
    LET i == LastIndexOf(s, "/")
    IN  IF i = 0 THEN <<s>>
        ELSE Append(SplitSlash(SubSeq(s, 1, i - 1)), SubSeq(s, i + 1, Len(s)))

\* Path::components: empty pieces and "." pieces are dropped, except a "."
\* that starts a relative path
components(path) ==
    LET raw == SplitSlash(path)
        keep(i) == /\ raw[i] # << >>
                   /\ (raw[i] = <<".">> => i = 1)
    IN  SelectSeq([i \in 1..Len(raw) |-> [idx |-> i, name |-> raw[i]]],
                  LAMBDA c : keep(c.idx))

\* Path::file_name: the last component if it is a normal one
file_name(path) ==
    LET comps == components(path)
    IN  IF comps = << >> THEN None
        ELSE LET last == comps[Len(comps)].name
             IN  IF last = <<".">> \/ last = <<".", ".">> THEN None
                 ELSE Some(last)

\* Path::extension: what follows the last "." of the file name, when the
\* file name has a "." that is not its first character
extension(path) ==
    LET name == file_name(path)
    IN  IF ~name.some THEN None
        ELSE LET i == LastIndexOf(name.v, ".")
             IN  IF i <= 1 THEN None
                 ELSE Some(SubSeq(name.v, i + 1, Len(name.v)))

-----------------------------------------------------------------------------
(* LoadFile (src/src/load_file.rs) *)

\* the question banks a file may hold
Banks == {"bankA", "bankB"}

\* what is at a path: nothing, or a file that the backend cannot open, or
\* opens but cannot read, or reads into a bank
NoFile == [exists |-> FALSE, opens |-> FALSE, bank |-> None]

Files ==
    {NoFile}
    \cup {[exists |-> TRUE, opens |-> FALSE, bank |-> None]}
    \cup {[exists |-> TRUE, opens |-> TRUE, bank |-> None]}
    \cup {[exists |-> TRUE, opens |-> TRUE, bank |-> Some(b)] : b \in Banks}

Success(qbank) == [tag |-> "Success", qbank |-> qbank]

FileNotFound == [tag |-> "FileNotFound"]

FailedToOpenSQLite == [tag |-> "FailedToOpenSQLite"]

FailedToReadSQLite == [tag |-> "FailedToReadSQLite"]

FailedToOpenExcel == [tag |-> "FailedToOpenExcel"]

FailedToReadExcel == [tag |-> "FailedToReadExcel"]

InvalidExcelExtension == [tag |-> "InvalidExcelExtension"]

UnsupportedExtension == [tag |-> "UnsupportedExtension"]

\* how often each backend function was called during one dispatch
NoCalls == [sqlite_open |-> 0, sqlite_read |-> 0, excel_open |-> 0, excel_read |-> 0]

\* SQLiteDB::open / Excel::open of the external library: a handle or nothing
backend_open(file) == IF file.opens THEN Some(file) ELSE None

\* read_qbank of the external library: a bank or nothing
read_qbank(db) == db.bank

\* Path::exists
path_exists(file) == file.exists

\* a slip: the two failures of the SQLite arm are taken for one another
load_sqlite_swapped(path_str, file) ==
    LET db == backend_open(file)
    IN  IF db.some
        THEN LET qbank == read_qbank(db.v)
             IN  [result |-> IF qbank.some THEN Success(qbank.v)
                             ELSE FailedToOpenSQLite,
                  calls |-> [NoCalls EXCEPT !.sqlite_open = 1,
                                            !.sqlite_read = 1]]
        ELSE [result |-> FailedToReadSQLite,
              calls |-> [NoCalls EXCEPT !.sqlite_open = 1]]

\* load_qbank_from_path, the arm "qbdb": open with SQLiteDB, then read
load_sqlite(path_str, file) ==
    LET db == backend_open(file)
    IN  IF db.some
        THEN LET qbank == read_qbank(db.v)
             IN  [result |-> IF qbank.some THEN Success(qbank.v)
                             ELSE FailedToReadSQLite,
                  calls |-> [NoCalls EXCEPT !.sqlite_open = 1,
                                            !.sqlite_read = 1]]
        ELSE [result |-> FailedToOpenSQLite,
              calls |-> [NoCalls EXCEPT !.sqlite_open = 1]]

\* a slip: the spreadsheet is opened without the check for ".qb.xlsx"
load_excel_unchecked(path_str, file) ==
    LET excel == backend_open(file)
    IN  IF excel.some
        THEN LET qbank == read_qbank(excel.v)
             IN  [result |-> IF qbank.some THEN Success(qbank.v)
                             ELSE FailedToReadExcel,
                  calls |-> [NoCalls EXCEPT !.excel_open = 1,
                                            !.excel_read = 1]]
        ELSE [result |-> FailedToOpenExcel,
              calls |-> [NoCalls EXCEPT !.excel_open = 1]]

\* load_qbank_from_path, the arm "xlsx": open with Excel, then read, if the
\* path string contains ".qb.xlsx"
load_excel(path_str, file) ==
    IF contains(path_str, STR_qb_xlsx)
    THEN LET excel == backend_open(file)
         IN  IF excel.some
             THEN LET qbank == read_qbank(excel.v)
                  IN  [result |-> IF qbank.some THEN Success(qbank.v)
                                  ELSE FailedToReadExcel,
                       calls |-> [NoCalls EXCEPT !.excel_open = 1,
                                                 !.excel_read = 1]]
             ELSE [result |-> FailedToOpenExcel,
                   calls |-> [NoCalls EXCEPT !.excel_open = 1]]
    ELSE [result |-> InvalidExcelExtension, calls |-> NoCalls]

\* str::to_lowercase on the characters of the model
to_lowercase(s) ==
    [i \in 1..Len(s) |->
        CASE s[i] = "X" -> "x" [] s[i] = "L" -> "l" [] s[i] = "S" -> "s"
          [] OTHER -> s[i]]

\* a slip: the extension is compared without regard to case
match_extension_ignoring_case(ext, path_str, file) ==
    IF to_lowercase(ext) = STR_qbdb THEN load_sqlite(path_str, file)
    ELSE IF to_lowercase(ext) = STR_xlsx THEN load_excel(path_str, file)
    ELSE [result |-> UnsupportedExtension, calls |-> NoCalls]

\* load_qbank_from_path, the match on the extension
match_extension(ext, path_str, file) ==
    IF ext = STR_qbdb THEN load_sqlite(path_str, file)
    ELSE IF ext = STR_xlsx THEN load_excel(path_str, file)
    ELSE [result |-> UnsupportedExtension, calls |-> NoCalls]

\* load_qbank_from_path: the extension the match is on,
\* path.extension().and_then(|s| s.to_str()).unwrap_or("")
extension_str(path) ==
    unwrap_or(IF extension(path).some THEN to_str(extension(path).v) ELSE None,
              << >>)

\* a slip: the dispatcher does not look whether the path exists
load_qbank_from_path_unchecked(path, file) ==
    match_extension(extension_str(path), to_string_lossy(path), file)

\* LoadFile::load_qbank_from_path: the result and the backend calls made
load_qbank_from_path(path, file) ==
    IF ~path_exists(file)
    THEN [result |-> FileNotFound, calls |-> NoCalls]
    ELSE LET path_str == to_string_lossy(path)
             extension_ == extension_str(path)
         IN  match_extension(extension_, path_str, file)

\* LoadFile::perform_pick_qbank_task
perform_pick_qbank_task ==
    [kind |-> "perform", future |-> "pick_file", message |-> "FileSelected"]

\* LoadFile::perform_load_qbank_task
perform_load_qbank_task(path) ==
    [kind |-> "perform", future |-> "load_qbank_from_path", path |-> path,
     message |-> "QBankLoaded"]

\* the pieces from which the paths given to the dispatcher are built
Tokens ==
    { <<"/">>, <<"a">>, <<".">>, <<BAD>>,
      <<".", "q", "b">>, <<".", "x", "l", "s", "x">>,
      <<".", "q", "b", "d", "b">>, <<".", "X", "L", "S", "X">> }

RECURSIVE Flatten(_)
Flatten(ss) == IF ss = << >> THEN << >> ELSE Head(ss) \o Flatten(Tail(ss))

\* the paths given to the dispatcher
Paths == UNION {{Flatten(ts) : ts \in [1..n -> Tokens]} : n \in 0..MaxTokens}

\* Path::new("").exists() is false: there is no file at the empty path
FilesAt(path) == IF path = EmptyPath THEN {NoFile} ELSE Files

\* before the first call
NoCall == [called |-> FALSE]

\* LoadFile::load_qbank_from_path(path) is called and runs to its result;
\* file is what the filesystem holds at path
LoadQbankFromPath ==
    /\ ~lf.called
    /\ \E path \in Paths : \E file \in FilesAt(path) :
          LET r == load_qbank_from_path(path, file)
          IN  lf' = [called |-> TRUE, path |-> path, file |-> file,
                     result |-> r.result, calls |-> r.calls]
    /\ UNCHANGED guiVars

\* the caller takes the result; the dispatcher keeps nothing of the call
ResultTaken ==
    /\ lf.called
    /\ lf' = NoCall
    /\ UNCHANGED guiVars

-----------------------------------------------------------------------------
(* ControlTower (src/src/control_tower.rs) *)

\* QBank::new_empty()
EmptyQBank == "empty-qbank"

\* SBank::new()
EmptySBank == "empty-sbank"

\* the menu font size ControlTower::new sets, in pixels
DEFAULT_FONT_SIZE == 24

\* the fallback locale that the i18n! macro configures for string lookup
FALLBACK_LOCALE == "en-US"

MenuClicked(menu_key) == [type |-> "MenuClicked", menu_key |-> menu_key]

SubMenuClicked(sub_item_key) == [type |-> "SubMenuClicked", sub_item_key |-> sub_item_key]

FileSelected(path) == [type |-> "FileSelected", path |-> path]

SetLocale(locale) == [type |-> "SetLocale", locale |-> locale]

GoToPage(page_name) == [type |-> "GoToPage", page_name |-> page_name]

\* Task::none()
TaskNone == [kind |-> "none"]

\* Task::perform(Self::pick_file(), |path_option| Message::FileSelected(..))
TaskPickFile == [kind |-> "perform", future |-> "pick_file", message |-> "FileSelected"]

\* ControlTower::new: the state, the process-wide locale it sets, the task
new ==
    [self |-> [qbank |-> EmptyQBank,
               sbank |-> EmptySBank,
               selected_file_path |-> EmptyPath,
               current_menu_key |-> "",
               menu_font_size_in_pixel |-> DEFAULT_FONT_SIZE,
               current_locale |-> "en",
               current_page |-> "main"],
     i18n_locale |-> "en",
     task |-> TaskNone]

\* a slip: the menu key is stored without the toggle
update_MenuClicked_no_toggle(self, locale, menu_key) ==
    [self |-> [self EXCEPT !.current_menu_key = menu_key],
     i18n_locale |-> locale,
     task |-> TaskNone]

\* a slip: a click on another menu first collapses the open one
update_MenuClicked_collapse_first(self, locale, menu_key) ==
    [self |-> IF self.current_menu_key # ""
              THEN [self EXCEPT !.current_menu_key = ""]
              ELSE [self EXCEPT !.current_menu_key = menu_key],
     i18n_locale |-> locale,
     task |-> TaskNone]

\* update, the arm Message::MenuClicked
update_MenuClicked(self, locale, menu_key) ==
    [self |-> IF self.current_menu_key = menu_key
              THEN [self EXCEPT !.current_menu_key = ""]
              ELSE [self EXCEPT !.current_menu_key = menu_key],
     i18n_locale |-> locale,
     task |-> TaskNone]

\* a slip: the menu is cleared before the load triggers are looked at
update_SubMenuClicked_collapsing(self, locale, sub_item_key) ==
    [self |-> [self EXCEPT !.current_menu_key = ""],
     i18n_locale |-> locale,
     task |-> IF sub_item_key = "load" \/ sub_item_key = "load-problem-bank"
              THEN TaskPickFile ELSE TaskNone]

\* a slip: only "load" starts the file pick
update_SubMenuClicked_single_trigger(self, locale, sub_item_key) ==
    IF sub_item_key = "load"
    THEN [self |-> self, i18n_locale |-> locale, task |-> TaskPickFile]
    ELSE [self |-> [self EXCEPT !.current_menu_key = ""],
          i18n_locale |-> locale,
          task |-> TaskNone]

\* update, the arm Message::SubMenuClicked
update_SubMenuClicked(self, locale, sub_item_key) ==
    IF sub_item_key = "load" \/ sub_item_key = "load-problem-bank"
    THEN [self |-> self, i18n_locale |-> locale, task |-> TaskPickFile]
    ELSE [self |-> [self EXCEPT !.current_menu_key = ""],
          i18n_locale |-> locale,
          task |-> TaskNone]

\* a slip: a path is stored only while none is selected
update_FileSelected_first_wins(self, locale, path) ==
    [self |-> IF self.selected_file_path = EmptyPath
              THEN [self EXCEPT !.selected_file_path = path,
                                !.current_menu_key = ""]
              ELSE [self EXCEPT !.current_menu_key = ""],
     i18n_locale |-> locale,
     task |-> TaskNone]

\* a slip: a selected file also brings the main page back
update_FileSelected_resetting_page(self, locale, path) ==
    [self |-> [self EXCEPT !.selected_file_path = path,
                           !.current_menu_key = "",
                           !.current_page = "main"],
     i18n_locale |-> locale,
     task |-> TaskNone]

\* update, the arm Message::FileSelected
update_FileSelected(self, locale, path) ==
    [self |-> [self EXCEPT !.selected_file_path = path,
                           !.current_menu_key = ""],
     i18n_locale |-> locale,
     task |-> TaskNone]

\* a slip: the field is set, rust_i18n::set_locale is not called
update_SetLocale_field_only(self, locale, new_locale) ==
    [self |-> [self EXCEPT !.current_locale = new_locale],
     i18n_locale |-> locale,
     task |-> TaskNone]

\* update, the arm Message::SetLocale
update_SetLocale(self, locale, new_locale) ==
    [self |-> [self EXCEPT !.current_locale = new_locale],
     i18n_locale |-> new_locale,
     task |-> TaskNone]

\* a slip: the menu is cleared as in the other arms
update_GoToPage_collapsing(self, locale, page_name) ==
    [self |-> [self EXCEPT !.current_page = page_name,
                           !.current_menu_key = ""],
     i18n_locale |-> locale,
     task |-> TaskNone]

\* update, the arm Message::GoToPage
update_GoToPage(self, locale, page_name) ==
    [self |-> [self EXCEPT !.current_page = page_name],
     i18n_locale |-> locale,
     task |-> TaskNone]

\* ControlTower::update: the state and the process-wide locale after the
\* message, and the task returned
update(self, locale, message) ==
    CASE message.type = "MenuClicked" ->
            update_MenuClicked(self, locale, message.menu_key)
      [] message.type = "SubMenuClicked" ->
            update_SubMenuClicked(self, locale, message.sub_item_key)
      [] message.type = "FileSelected" ->
            update_FileSelected(self, locale, message.path)
      [] message.type = "SetLocale" ->
            update_SetLocale(self, locale, message.locale)
      [] message.type = "GoToPage" ->
            update_GoToPage(self, locale, message.page_name)

\* view: the keys of the menu bar
menu_keys ==
    << "problem-bank-management", "generate-exam-paper",
       "student-list-management", "learning", "settings", "information" >>

\* view: the items of the submenu of the open menu
sub_menu_items(current_menu_key) ==
    CASE current_menu_key = "problem-bank-management" ->
            << "create-new-problem-bank", "load", "edit", "export",
               "export-as", "optimize" >>
      [] current_menu_key = "generate-exam-paper" ->
            << "load-problem-bank", "criteria-for-problem-extraction",
               "load-student-list", "export-exam-paper" >>
      [] current_menu_key = "student-list-management" ->
            << "load", "edit", "export", "export-as" >>
      [] current_menu_key = "learning" ->
            << "load-problem-bank", "criteria-for-problem-extraction",
               "grading-criteria", "take-exam" >>
      [] current_menu_key = "settings" ->
            << "storage-path", "atmosphere", "font", "language" >>
      [] current_menu_key = "information" ->
            << "help", "software-info", "copyright-info" >>
      [] OTHER -> << "coming-soon" >>

\* a slip: every item of the settings menu opens a page of its own
on_press_message_page_per_item(current_menu_key, item_key) ==
    IF current_menu_key = "settings"
    THEN GoToPage(item_key)
    ELSE SubMenuClicked(item_key)

\* view: the message a submenu item sends when it is pressed
on_press_message(current_menu_key, item_key) ==
    IF current_menu_key = "settings" /\ item_key = "language"
    THEN GoToPage("language-settings")
    ELSE SubMenuClicked(item_key)

\* view: the submenu area, a button (its key and its message) per item;
\* empty when no menu is open
sub_menu_area(self) ==
    IF self.current_menu_key # ""
    THEN LET items == sub_menu_items(self.current_menu_key)
         IN  [i \in 1..Len(items) |->
                 [key |-> items[i],
                  on_press |-> on_press_message(self.current_menu_key, items[i])]]
    ELSE << >>

\* a slip: the match on the page has no arm for unknown pages
main_content_area_no_fallback(self) ==
    IF self.current_page = "language-settings" THEN "language-settings"
    ELSE "main"

\* view: which page the main content area shows
main_content_area(self) ==
    CASE self.current_page = "main" -> "main"
      [] self.current_page = "language-settings" -> "language-settings"
      [] OTHER -> "coming-soon"

\* ControlTower::view: the menu bar, the submenu, the page, and the locale
\* in which t! looks the strings up
view(self, locale) ==
    [menu_bar |-> [i \in 1..Len(menu_keys) |-> MenuClicked(menu_keys[i])],
     sub_menu |-> sub_menu_area(self),
     page |-> main_content_area(self),
     locale |-> locale]

\* LOCALES_DIR: the files of assets/locales embedded in the build, each as
\* its stem and its suffix; the three are the locales the code names
LOCALES_DIR == { <<"en", ".yml">>, <<"ko", ".yml">>, <<"ru", ".yml">> }

\* ControlTower::get_available_locales: a pair of language name and locale
\* code per embedded file whose name ends with .yml
\* (the Korean and the Russian name are written in Latin letters here)
get_available_locales ==
    { [language_name |-> CASE file[1] = "en" -> "English"
                           [] file[1] = "ko" -> "Korean"
                           [] file[1] = "ru" -> "Russian"
                           [] OTHER -> file[1],
       locale |-> file[1]] : file \in {f \in LOCALES_DIR : f[2] = ".yml"} }

\* view: the messages of the buttons in the main content area: none on the
\* main page and on the placeholder, a button per available locale and the
\* back button on the language page
main_content_buttons(self) ==
    CASE self.current_page = "main" -> {}
      [] self.current_page = "language-settings" ->
            {SetLocale(l.locale) : l \in get_available_locales}
            \cup {GoToPage("main")}
      [] OTHER -> {}

\* the messages the widgets of the rendered view send when pressed
view_messages(self, locale) ==
    LET v == view(self, locale)
    IN  {v.menu_bar[i] : i \in DOMAIN v.menu_bar}
        \cup {v.sub_menu[i].on_press : i \in DOMAIN v.sub_menu}
        \cup main_content_buttons(self)

\* LoadFile::pick_question_bank().await.unwrap_or_default(), and the same in
\* the closure of update: the path picked, the default PathBuf when the
\* dialog was dismissed
unwrap_or_default(path_option) == unwrap_or(path_option, EmptyPath)

-----------------------------------------------------------------------------
(* The messages and the files of the model *)

MenuKeyInputs ==
    {menu_keys[i] : i \in 1..Len(menu_keys)} \cup {"", "no-such-menu"}

SubItemInputs == {"load", "load-problem-bank", "language", "edit", "no-such-item"}

LocaleInputs == {"en", "ko", "ko-KR"}

PageInputs == {"main", "language-settings", "no-such-page"}

\* the files the user can pick in the dialog
PickablePaths ==
    { <<"a", ".", "q", "b", "d", "b">>, <<"a", ".", "x", "l", "s", "x">> }

Messages ==
    {MenuClicked(k) : k \in MenuKeyInputs}
    \cup {SubMenuClicked(k) : k \in SubItemInputs}
    \cup {FileSelected(p) : p \in PickablePaths \cup {EmptyPath}}
    \cup {SetLocale(l) : l \in LocaleInputs}
    \cup {GoToPage(p) : p \in PageInputs}

\* before the first message
NoMessage == [type |-> "None"]

-----------------------------------------------------------------------------
(* The application: iced runs new once, then update per message *)

Init ==
    /\ ct = new.self
    /\ i18n_locale = new.i18n_locale
    /\ picks = 0
    /\ lastMsg = NoMessage
    /\ pre = new.self
    /\ lastTask = new.task
    /\ tick = FALSE
    /\ fromPick = FALSE
    /\ lf = NoCall

\* the runtime hands message to update and spawns the task it returns
Handle(message, picksLeft, byPickTask) ==
    LET r == update(ct, i18n_locale, message)
        spawned == IF r.task = TaskPickFile THEN 1 ELSE 0
    IN  /\ picksLeft + spawned <= MaxPending
        /\ ct' = r.self
        /\ i18n_locale' = r.i18n_locale
        /\ picks' = picksLeft + spawned
        /\ lastMsg' = message
        /\ pre' = ct
        /\ lastTask' = r.task
        /\ tick' = ~tick
        /\ fromPick' = byPickTask
        /\ UNCHANGED lf

\* a message reaches update: a widget was pressed, or any other sender
Deliver ==
    \E message \in Messages : Handle(message, picks, FALSE)

\* a file-pick task completes: the user picked a file or dismissed the
\* dialog, and the task's message FileSelected reaches update
PickCompletes ==
    /\ picks > 0
    /\ \E path_option \in {None} \cup {Some(p) : p \in PickablePaths} :
          Handle(FileSelected(unwrap_or_default(path_option)), picks - 1, TRUE)

Next == Deliver \/ PickCompletes

Spec == Init /\ [][Next]_vars

(* The dispatcher alone: it is called with a path, runs, and its result is *)
(* taken.                                                                  *)

NextLoad == LoadQbankFromPath \/ ResultTaken

SpecLoad == Init /\ [][NextLoad]_vars

(* The application with the scheduling of its tasks: a file-pick task that *)
(* was spawned runs to its end, the dialog being closed one way or the     *)
(* other, and its message is delivered.  Nothing obliges the user to send  *)
(* further messages.                                                       *)

SpecFair == Spec /\ WF_vars(PickCompletes)

(* The application driven through its window only: the messages that reach *)
(* update are those of the widgets that view renders in the current state, *)
(* and FileSelected of a file-pick task.                                   *)

\* the user presses a widget of the rendered view
PressWidget ==
    \E message \in view_messages(ct, i18n_locale) : Handle(message, picks, FALSE)

NextUI == PressWidget \/ PickCompletes

SpecUI == Init /\ [][NextUI]_vars

-----------------------------------------------------------------------------
(* Properties of the dispatcher, under SpecLoad *)

\* the call was made on a path at which there is a file
CalledOnExisting == lf.called /\ lf.file.exists

\* C1: a path that does not exist gives FileNotFound, whatever its
\* extension, and no backend function is called.
C1_MissingFileIsNotFound ==
    (lf.called /\ ~lf.file.exists)
        => (lf.result = FileNotFound /\ lf.calls = NoCalls)

\* a missing path with the extension qbdb was dispatched
C1_Witness ==
    /\ lf.called /\ ~lf.file.exists
    /\ extension_str(lf.path) = STR_qbdb
    /\ lf.result = FileNotFound

C3_UnmarkedSpreadsheet ==
    (/\ CalledOnExisting
     /\ extension_str(lf.path) = STR_xlsx
     /\ ~contains(to_string_lossy(lf.path), STR_qb_xlsx))
        => (lf.result = InvalidExcelExtension /\ lf.calls.excel_open = 0)

\* the existing file a.xlsx was dispatched
C3_Witness ==
    /\ CalledOnExisting
    /\ lf.path = <<"a", ".", "x", "l", "s", "x">>
    /\ lf.file.opens
    /\ lf.result = InvalidExcelExtension

-----------------------------------------------------------------------------
(* Properties of the application, under Spec *)

\* this step is a run of update
Updated == tick' # tick

\* C4: when menu k is open, MenuClicked(k) collapses the menu, and
\* MenuClicked(k) once more opens it on k again.
C4_MenuToggle ==
    [][\A k \in MenuKeyInputs \ {""} :
          (Updated /\ lastMsg' = MenuClicked(k))
              => /\ (ct.current_menu_key = k => ct'.current_menu_key = "")
                 /\ ((lastMsg = MenuClicked(k) /\ pre.current_menu_key = k)
                        => ct'.current_menu_key = k)]_vars

\* the open menu settings was clicked and is collapsed
C4_Witness ==
    /\ lastMsg = MenuClicked("settings")
    /\ pre.current_menu_key = "settings"
    /\ ct.current_menu_key = ""

\* C5: SetLocale(tag) makes the locale field and the process-wide locale,
\* in which view looks the strings up, equal to tag, and both keep that
\* value until the next SetLocale.
C5_SetLocale ==
    [][IF Updated /\ lastMsg'.type = "SetLocale"
       THEN /\ ct'.current_locale = lastMsg'.locale
            /\ view(ct', i18n_locale').locale = lastMsg'.locale
       ELSE /\ ct'.current_locale = ct.current_locale
            /\ view(ct', i18n_locale').locale = view(ct, i18n_locale).locale]_vars

\* after a SetLocale("ko") some other message was handled, and the locale is
\* ko in the field and in the view
C5_Witness ==
    /\ lastMsg.type = "GoToPage"
    /\ ct.current_locale = "ko"
    /\ view(ct, i18n_locale).locale = "ko"

\* C6: GoToPage(page_key) sets the page to page_key and leaves the menu key
\* as it was, open or collapsed.
C6_GoToPageKeepsMenu ==
    lastMsg.type = "GoToPage"
        => /\ ct.current_page = lastMsg.page_name
           /\ ct.current_menu_key = pre.current_menu_key

\* GoToPage was handled with the menu settings open
C6_Witness ==
    /\ lastMsg = GoToPage("language-settings")
    /\ pre.current_menu_key = "settings"
    /\ ct.current_menu_key = "settings"
    /\ ct.current_page = "language-settings"

\* Task::done(message): a task that delivers message
TaskDone(message) == [kind |-> "done", message |-> message]

\* C7 as stated: from the default state MenuClicked("settings") opens the
\* menu on settings; SubMenuClicked("language") with the menu settings open
\* has the followup GoToPage("language-settings") and collapses the menu.
C7_LanguageFollowup ==
    /\ (lastMsg = MenuClicked("settings") /\ pre = new.self)
          => ct.current_menu_key = "settings"
    /\ (lastMsg = SubMenuClicked("language") /\ pre.current_menu_key = "settings")
          => /\ lastTask = TaskDone(GoToPage("language-settings"))
             /\ ct.current_menu_key = ""

\* C8 as stated: the state after new has the page main, no menu, an empty
\* path, empty banks, no task, and the locale of the field, of the process
\* and of the i18n fallback agree.
C8_DefaultState ==
    lastMsg = NoMessage
        => /\ ct.current_page = "main"
           /\ ct.current_menu_key = ""
           /\ ct.selected_file_path = EmptyPath
           /\ ct.qbank = EmptyQBank
           /\ ct.sbank = EmptySBank
           /\ lastTask = TaskNone
           /\ ct.current_locale = i18n_locale
           /\ ct.current_locale = FALLBACK_LOCALE

\* C9: SubMenuClicked with a load trigger returns the file-pick task and
\* changes nothing; with any other key it returns no task and collapses
\* the menu, changing nothing else.
C9_SubMenuClicked ==
    [][(Updated /\ lastMsg'.type = "SubMenuClicked")
          => IF lastMsg'.sub_item_key \in {"load", "load-problem-bank"}
             THEN /\ lastTask' = TaskPickFile
                  /\ ct' = ct
                  /\ i18n_locale' = i18n_locale
             ELSE /\ lastTask' = TaskNone
                  /\ ct' = [ct EXCEPT !.current_menu_key = ""]
                  /\ i18n_locale' = i18n_locale]_vars

\* load was clicked in the open menu problem-bank-management: the pick is
\* under way and the menu is still open
C9_Witness ==
    /\ lastMsg = SubMenuClicked("load")
    /\ pre.current_menu_key = "problem-bank-management"
    /\ ct.current_menu_key = "problem-bank-management"
    /\ lastTask = TaskPickFile
    /\ picks > 0

\* C10 as stated: FileSelected(path) returns the task that dispatches path,
\* and collapses the menu.
C10_FileSelectedDispatches ==
    lastMsg.type = "FileSelected"
        => /\ lastTask = perform_load_qbank_task(lastMsg.path)
           /\ ct.current_menu_key = ""

-----------------------------------------------------------------------------
(* Further properties of the dispatcher, under SpecLoad *)

\* what a backend makes of file: the variant for a failed open, without a
\* read; the variant for a failed read; Success with the bank that was read
BackendOutcome(file, openFailed, readFailed) ==
    IF ~file.opens THEN openFailed
    ELSE IF ~file.bank.some THEN readFailed
    ELSE Success(file.bank.v)

\* the backend functions called for file: open, and read if open succeeded
BackendCalls(file) == <<1, IF file.opens THEN 1 ELSE 0>>

\* C11: for an existing path that selects a backend (qbdb: SQLite; xlsx
\* with ".qb.xlsx" in the path: Excel) the result is the one the outcomes of
\* that backend fix: open fails, the open-failed variant of that backend and
\* no read; read fails, its read-failed variant; both succeed, Success with
\* the bank that was read.  The other backend is not called.
C11_BackendOutcomes ==
    /\ (CalledOnExisting /\ extension_str(lf.path) = STR_qbdb)
          => /\ lf.result = BackendOutcome(lf.file, FailedToOpenSQLite,
                                           FailedToReadSQLite)
             /\ <<lf.calls.sqlite_open, lf.calls.sqlite_read>> = BackendCalls(lf.file)
             /\ <<lf.calls.excel_open, lf.calls.excel_read>> = <<0, 0>>
    /\ (/\ CalledOnExisting
        /\ extension_str(lf.path) = STR_xlsx
        /\ contains(to_string_lossy(lf.path), STR_qb_xlsx))
          => /\ lf.result = BackendOutcome(lf.file, FailedToOpenExcel,
                                           FailedToReadExcel)
             /\ <<lf.calls.excel_open, lf.calls.excel_read>> = BackendCalls(lf.file)
             /\ <<lf.calls.sqlite_open, lf.calls.sqlite_read>> = <<0, 0>>

\* a.qbdb was opened by SQLite and could not be read
C11_Witness ==
    /\ CalledOnExisting
    /\ lf.path = <<"a", ".", "q", "b", "d", "b">>
    /\ lf.file.opens /\ ~lf.file.bank.some
    /\ lf.result = FailedToReadSQLite
    /\ lf.calls.sqlite_read = 1

\* s ends with suffix
ends_with(s, suffix) ==
    /\ Len(s) >= Len(suffix)
    /\ SubSeq(s, Len(s) - Len(suffix) + 1, Len(s)) = suffix

\* C19 as stated: for an existing path with the extension xlsx, the result
\* is InvalidExcelExtension exactly if the file name does not end in
\* ".qb.xlsx", and Excel::open is called only for names that end in it.
C19_MarkerIsSuffix ==
    (CalledOnExisting /\ extension_str(lf.path) = STR_xlsx)
        => /\ (lf.result = InvalidExcelExtension)
                  <=> ~ends_with(file_name(lf.path).v, STR_qb_xlsx)
           /\ lf.calls.excel_open > 0
                  => ends_with(file_name(lf.path).v, STR_qb_xlsx)

-----------------------------------------------------------------------------
(* Further properties of the application, under Spec and SpecFair *)

\* the message handled last was a SubMenuClicked with a load trigger
LoadTriggerHandled ==
    /\ lastMsg.type = "SubMenuClicked"
    /\ lastMsg.sub_item_key \in {"load", "load-problem-bank"}

\* the message handled last was the FileSelected of a file-pick task
PickDelivered == fromPick /\ lastMsg.type = "FileSelected"

\* C13 as stated: the selected path is the last path accepted in a file
\* pick: an accepted pick stores its path, a dismissed pick leaves the
\* selected path as it was, and so does every message other than
\* FileSelected.
C13_LastAcceptedPath ==
    [][Updated
          => /\ (fromPick' /\ lastMsg'.path # EmptyPath)
                   => ct'.selected_file_path = lastMsg'.path
             /\ (fromPick' /\ lastMsg'.path = EmptyPath)
                   => ct'.selected_file_path = ct.selected_file_path
             /\ (lastMsg'.type # "FileSelected")
                   => ct'.selected_file_path = ct.selected_file_path]_vars

\* Message::QBankLoaded(result), the message of perform_load_qbank_task
QBankLoaded(result) == [type |-> "QBankLoaded", result |-> result]

\* C14 as stated: once FileSelected with a non-empty path is handled, the
\* task that delivers QBankLoaded with the dispatcher's result for that
\* path is under way, and QBankLoaded(Success(bank)) makes bank the
\* question bank of the state.
C14_LoadResultDelivered ==
    /\ (lastMsg.type = "FileSelected" /\ lastMsg.path # EmptyPath)
          => /\ lastTask.kind = "perform"
             /\ lastTask.message = "QBankLoaded"
             /\ lastTask.path = lastMsg.path
    /\ \A b \in Banks :
          lastMsg = QBankLoaded(Success(b)) => ct.qbank = b

ControlTowers ==
    [qbank : {EmptyQBank}, sbank : {EmptySBank},
     selected_file_path : PickablePaths \cup {EmptyPath},
     current_menu_key : MenuKeyInputs,
     menu_font_size_in_pixel : {DEFAULT_FONT_SIZE},
     current_locale : LocaleInputs,
     current_page : PageInputs]

\* C16: update is defined for every message in every state; a menu key, a
\* page key, a locale and a path are stored as they come, known or not; view
\* shows the page coming-soon for every page other than main and
\* language-settings, and the one item coming-soon for an open menu whose
\* key is not a key of the menu bar.
C16_TotalAndGraceful ==
    /\ \A m \in Messages :
          /\ update(ct, i18n_locale, m).self \in ControlTowers
          /\ update(ct, i18n_locale, m).task \in {TaskNone, TaskPickFile}
    /\ (lastMsg.type = "MenuClicked" /\ pre.current_menu_key # lastMsg.menu_key)
          => ct.current_menu_key = lastMsg.menu_key
    /\ lastMsg.type = "GoToPage" => ct.current_page = lastMsg.page_name
    /\ lastMsg.type = "SetLocale" => ct.current_locale = lastMsg.locale
    /\ lastMsg.type = "FileSelected" => ct.selected_file_path = lastMsg.path
    /\ view(ct, i18n_locale).page =
          (IF ct.current_page \in {"main", "language-settings"}
           THEN ct.current_page ELSE "coming-soon")
    /\ ct.current_menu_key \notin ({menu_keys[i] : i \in 1..Len(menu_keys)} \cup {""})
          => view(ct, i18n_locale).sub_menu =
                << [key |-> "coming-soon", on_press |-> SubMenuClicked("coming-soon")] >>

\* an unknown page and an unknown menu are stored and shown as coming-soon
C16_Witness ==
    /\ ct.current_page = "no-such-page"
    /\ ct.current_menu_key = "no-such-menu"
    /\ view(ct, i18n_locale).page = "coming-soon"
    /\ Len(view(ct, i18n_locale).sub_menu) = 1

\* the menu k is open: it is the current menu and view shows its submenu
MenuOpenOn(self, k) ==
    self.current_menu_key = k /\ sub_menu_area(self) # << >>

\* C17 as stated: for every key k, the empty string included, MenuClicked(k)
\* in a state whose menu is not k leaves the menu open on k.
C17_OpensOnAnyKey ==
    (lastMsg.type = "MenuClicked" /\ pre.current_menu_key # lastMsg.menu_key)
        => MenuOpenOn(ct, lastMsg.menu_key)

\* C17 amended: for every non-empty key k, MenuClicked(k) in a state whose
\* menu is not k (collapsed, or open on another key) leaves the menu open on
\* k, in one click; MenuClicked("") on an open menu collapses it, the empty
\* string being the key of no menu.
C17_OpensOnNonEmptyKey ==
    (lastMsg.type = "MenuClicked" /\ pre.current_menu_key # lastMsg.menu_key)
        => IF lastMsg.menu_key # ""
           THEN MenuOpenOn(ct, lastMsg.menu_key)
           ELSE ct.current_menu_key = "" /\ sub_menu_area(ct) = << >>

\* one click went from the open menu learning to the menu settings
C17_Witness ==
    /\ lastMsg = MenuClicked("settings")
    /\ pre.current_menu_key = "learning"
    /\ MenuOpenOn(ct, "settings")

\* the fields of the ControlTower
Fields == DOMAIN new.self

\* the states that differ from self in one field
Variants(self) ==
    {[self EXCEPT !.current_menu_key = k] : k \in MenuKeyInputs}
    \cup {[self EXCEPT !.current_page = p] : p \in PageInputs}
    \cup {[self EXCEPT !.current_locale = l] : l \in LocaleInputs}
    \cup {[self EXCEPT !.selected_file_path = p] : p \in PickablePaths \cup {EmptyPath}}

\* the fields a message of this type may change
OwnFields(type) ==
    CASE type = "MenuClicked" -> {"current_menu_key"}
      [] type = "SubMenuClicked" -> {"current_menu_key"}
      [] type = "FileSelected" -> {"selected_file_path", "current_menu_key"}
      [] type = "SetLocale" -> {"current_locale"}
      [] type = "GoToPage" -> {"current_page"}

\* C18: a message changes only its own field and possibly the menu key
\* (MenuClicked and SubMenuClicked the menu key, FileSelected the path and
\* the menu key, SetLocale the locale in the field and in the process,
\* GoToPage the page); banks and font size never change; and what a message
\* makes of a field does not depend on the other fields.
C18_Frame ==
    [][Updated
          => /\ \A f \in Fields \ OwnFields(lastMsg'.type) : ct'[f] = ct[f]
             /\ lastMsg'.type # "SetLocale" => i18n_locale' = i18n_locale
             /\ \A o \in Variants(ct) :
                   LET after == update(o, i18n_locale, lastMsg').self
                   IN  \A f \in Fields : o[f] = ct[f] => after[f] = ct'[f]]_vars

\* a file was selected on the language page under the locale ko: path and
\* menu changed, page and locale did not
C18_Witness ==
    /\ lastMsg.type = "FileSelected"
    /\ lastMsg.path # EmptyPath
    /\ pre.current_menu_key # ""
    /\ ct.current_page = "language-settings"
    /\ ct.current_locale = "ko"
    /\ ct.selected_file_path = lastMsg.path
    /\ ct.current_menu_key = ""

\* C20: the FileSelected of a file-pick task stores its path, whatever was
\* selected before and however many picks are still under way, and collapses
\* the menu open at that moment: after the last of several picks the
\* selected path is that of the FileSelected delivered last.
C20_LastDeliveredWins ==
    fromPick
        => /\ lastMsg.type = "FileSelected"
           /\ ct.selected_file_path = lastMsg.path
           /\ ct.current_menu_key = ""

\* with another pick still under way, a pick delivered a path over the path
\* selected before and collapsed the menu settings
C20_Witness ==
    /\ PickDelivered
    /\ picks >= 1
    /\ pre.current_menu_key = "settings"
    /\ pre.selected_file_path # EmptyPath
    /\ lastMsg.path # EmptyPath
    /\ lastMsg.path # pre.selected_file_path
    /\ ct.selected_file_path = lastMsg.path

-----------------------------------------------------------------------------
(* Properties of the application driven through its window, under SpecUI *)

\* the keys of the menu bar, as a set
MenuBarKeys == {menu_keys[i] : i \in 1..Len(menu_keys)}

\* the submenu rendered for self shows the placeholder item
PlaceholderSubMenu(self) ==
    \E i \in DOMAIN sub_menu_area(self) : sub_menu_area(self)[i].key = "coming-soon"

\* C21: when update receives only messages of the widgets that view renders
\* in the current state and FileSelected of picks, the page is always
\* "main" or "language-settings" and the menu key is always empty or one of
\* the six keys of the menu bar, so neither the placeholder page nor the
\* placeholder submenu is ever shown; and when pressing a submenu item
\* changed the page, the item was "language" of the open menu "settings".
C21_UIReachable ==
    /\ ct.current_page \in {"main", "language-settings"}
    /\ ct.current_menu_key \in {""} \cup MenuBarKeys
    /\ main_content_area(ct) # "coming-soon"
    /\ ~PlaceholderSubMenu(ct)
    /\ \A i \in DOMAIN sub_menu_area(pre) :
          (/\ lastMsg = sub_menu_area(pre)[i].on_press
           /\ ct.current_page # pre.current_page)
          => (/\ pre.current_menu_key = "settings"
              /\ sub_menu_area(pre)[i].key = "language"
              /\ ct.current_page = "language-settings")

\* the language item of the open settings menu was pressed on the main page
\* and the language page is shown
C21_Witness ==
    /\ pre.current_menu_key = "settings"
    /\ pre.current_page = "main"
    /\ lastMsg = on_press_message("settings", "language")
    /\ ct.current_page = "language-settings"
    /\ main_content_area(ct) = "language-settings"

====
